---- MODULE Spec2Model ----
(***************************************************************************)
(* dbExplorer: the session-scoped cache layer (app/db/redis_caches.py),    *)
(* the session registry (app/db/database.py), the table / connection /     *)
(* cache routes (app/routers) and the backend adapters (app/db/dbDriver).  *)
(*                                                                         *)
(* The cache store (Redis) and the backend database are the two shared     *)
(* resources.  A request is a sequence of steps, one step per command      *)
(* sent to one of the two; requests of different worker processes          *)
(* interleave between steps.  Every cache command may fault (the store is  *)
(* unreachable); entries may expire; a stored payload may be damaged.      *)
(* The pagination statements of the adapters are modelled apart, as calls  *)
(* of get_paginated_records on a table that no one writes.                 *)
(***************************************************************************)
EXTENDS Integers, Sequences, FiniteSets, TLC

\* ---------------------------------------------------------------- bounds
NumProcs == 2          \* requests in flight at the same time
MaxWrites == 2         \* committed backend writes per behaviour
MaxRows == 2           \* row ids a table can hold
MaxHeap == 3           \* rows of the table that is paged
MaxPage == 2           \* page numbers asked of it
MaxPageSize == 2       \* page sizes asked of it
PageNo == 1            \* the page the callers ask for
PageSize == 2          \* the page size the callers ask for
NumSeeds == 2          \* salts an interpreter can start with
MaxStored == 2         \* selected-columns pages in the store at a time

Procs == 1..NumProcs

\* ------------------------------------------------------- program constants
DEFAULT_EXPIRE == 3600     \* set_cache(expire=3600), table list, columns, descriptor
RECORDS_EXPIRE == 1800     \* cache_table_records / cache_table_count
PREVIEW_EXPIRE == 300      \* cache_table_preview
PREVIEW_ROWS == 10         \* get_first_10_records

\* ------------------------------------------------------------- the backend
TokenSeq == <<"s1", "s2">>           \* the tokens uuid4 hands out, in order
Tokens == {TokenSeq[i] : i \in DOMAIN TokenSeq}
TableList == <<"t1">>                \* tables that exist in the backend
Tables == {TableList[i] : i \in DOMAIN TableList}
TableNames == {"t1", "zz"}           \* table names a caller may pass
TableColumns == <<"id", "c">>        \* declared columns of every table, "id" the key
ColumnNames == {"c", "zz"}           \* column names a caller may pass
Vals == {"a", "b"}                   \* cell values
NoRow == "-"
RowIds == 1..MaxRows

Range(f) == {f[x] : x \in DOMAIN f}

\* ------------------------------------------------------------- cache keys
\* A key "a:b:c" is the tuple of its colon-separated segments.
ConnKey(s) == <<"connection", s>>
AllTablesKey(s) == <<s, "all_tables">>
ColumnsKey(s, t) == <<s, "table", t, "columns">>
RecordsKey(s, t, page, size) == <<s, "table", t, "records", "page", page, "size", size>>
CountKey(s, t) == <<s, "table", t, "count">>
PreviewKey(s, t) == <<s, "table", t, "preview">>

\* sorted(columns): str order is by code point, "_" before the lower case
NameOrder == <<"_id", "a", "b", "c", "id", "zz">>
Rank(c) == CHOOSE i \in DOMAIN NameOrder : NameOrder[i] = c

RECURSIVE Insert(_, _)
Insert(x, s) ==
    IF s = <<>> THEN <<x>>
    ELSE IF Rank(x) <= Rank(Head(s)) THEN <<x>> \o s
    ELSE <<Head(s)>> \o Insert(x, Tail(s))

RECURSIVE sorted(_)
sorted(s) == IF s = <<>> THEN <<>> ELSE Insert(Head(s), sorted(Tail(s)))

\* hash(tuple(...)): the hash of a tuple of str is a function of the items and
\* of the salt the interpreter drew at start (PYTHONHASHSEED); it stands here
\* as the pair of the two, so equal hashes mean equal salt and equal items
hash(salt, items) == <<salt, items>>

SelectedKey(salt, s, t, columns, page, size) ==
    <<s, "table", t, "selected", hash(salt, sorted(columns)), "page", page, "size", size>>

\* redis KEYS pattern, a glob over the text of the key: a segment "*" of the
\* pattern matches any text that is left, colons included; every other
\* segment matches itself.  The session id and the table name are put into
\* the pattern as they are, so a name "*" is a wildcard too.
RECURSIVE Matches(_, _)
Matches(pat, k) ==
    IF pat = <<>> THEN k = <<>>
    ELSE IF Head(pat) = "*"
    THEN \E n \in 1..Len(k) : Matches(Tail(pat), SubSeq(k, n + 1, Len(k)))
    ELSE /\ k # <<>>
         /\ Head(k) = Head(pat)
         /\ Matches(Tail(pat), Tail(k))

\* KEYS as it would be if the session segment of the pattern were not compared
KeysAnySession(st, pat) == {k \in DOMAIN st : Matches(Tail(pat), Tail(k))}

Keys(st, pat) == {k \in DOMAIN st : Matches(pat, k)}

Put(st, k, e) == [x \in (DOMAIN st) \cup {k} |-> IF x = k THEN e ELSE st[x]]
Drop(st, ks) == [x \in (DOMAIN st) \ ks |-> st[x]]

TablePatterns(s, t) ==
    << <<s, "table", t, "*">>,
       <<s, "table", t, "records", "*">>,
       <<s, "table", t, "selected", "*">>,
       <<s, "table", t, "count">>,
       <<s, "table", t, "columns">> >>

SessionPatterns(s) == << <<"connection", s>>, <<s, "*">> >>

\* ------------------------------------------------- values and their payloads
\* A Python value: ty is its type, v its content.  A payload is the text redis
\* holds: "json" text that json.loads parses back to v, "raw" text that is no
\* JSON, or the empty string.
None == [ty |-> "none", v |-> 0]
IntV(n) == [ty |-> "int", v |-> n]
StrV(x) == [ty |-> "str", v |-> x]
ListV(x) == [ty |-> "list", v |-> x]
RowsV(x) == [ty |-> "rows", v |-> x]      \* a list whose items are row-maps
DictV(x) == [ty |-> "dict", v |-> x]
BoolV(x) == [ty |-> "bool", v |-> x]

Truthy(val) ==
    CASE val.ty = "none" -> FALSE
      [] val.ty = "bool" -> val.v
      [] val.ty = "int" -> val.v # 0
      [] val.ty = "str" -> val.v # ""
      [] val.ty \in {"list", "rows"} -> val.v # <<>>
      [] OTHER -> TRUE

\* A cell the driver returns as an object json cannot encode (a DATETIME
\* column gives datetime.datetime), and str() of that object
DateCell == "datetime(2024, 1, 1, 0, 0)"
DateText == "2024-01-01 00:00:00"

\* json.dumps(..., default=str): str() of every object json cannot encode
default_str(x) == IF x = DateCell THEN DateText ELSE x

JsonRows(rows) == [i \in DOMAIN rows |-> [rows[i] EXCEPT !.c = default_str(@)]]

\* json.loads(json.dumps(value, default=str)): what comes back from the text
Loaded(val) ==
    CASE val.ty = "rows" -> RowsV(JsonRows(val.v))
      [] val.ty = "dict" /\ "records" \in DOMAIN val.v ->
           DictV([val.v EXCEPT !.records = JsonRows(@)])
      [] OTHER -> val

\* json.dumps(value, default=str) for dict/list, str(value) otherwise
Serialize(val) ==
    CASE val.ty \in {"dict", "list", "rows"} -> [txt |-> "json", v |-> Loaded(val)]
      [] val.ty = "int" -> [txt |-> "json", v |-> val]
      [] val.ty = "str" -> IF val.v = "" THEN [txt |-> "empty", v |-> None]
                                         ELSE [txt |-> "raw", v |-> None]
      [] OTHER -> [txt |-> "raw", v |-> None]

\* ------------------------------------------------------ the MySQL adapter
\* A table is a function from row id to the value of column "c", NoRow where
\* the id holds no row.  db maps every existing table to its content.
RowOf(tbl, i) == [id |-> i, c |-> tbl[i]]

RECURSIVE RowsFrom(_, _)
RowsFrom(tbl, i) ==
    IF i > MaxRows THEN <<>>
    ELSE IF tbl[i] = NoRow THEN RowsFrom(tbl, i + 1)
    ELSE <<RowOf(tbl, i)>> \o RowsFrom(tbl, i + 1)

\* the rows of a table in the order an unordered SELECT returns them
Rows(tbl) == RowsFrom(tbl, 1)

\* LIMIT n OFFSET off
LimitOffset(rows, n, off) ==
    SubSeq(rows, off + 1, IF off + n > Len(rows) THEN Len(rows) ELSE off + n)

\* math.floor(a / b), the quotient rounded down
Floor(a, b) == a \div b

\* math.ceil(a / b)
Ceil(a, b) == (a + b - 1) \div b

_validate_table_exists(t) == t \in Tables

_validate_columns(cols) == SelectSeq(cols, LAMBDA c : c \in Range(TableColumns))

_get_primary_key_or_first_column(t) == IF t \in Tables THEN TableColumns[1] ELSE "id"

get_all_tables(db) ==
    ListV([i \in DOMAIN TableList |-> [database |-> "db", table |-> TableList[i]]])

get_table_record_count(db, t) ==
    IF ~_validate_table_exists(t) THEN IntV(0)
    ELSE IntV(Len(Rows(db[t])))

get_first_10_records(db, t) ==
    IF ~_validate_table_exists(t) THEN RowsV(<<>>)
    ELSE RowsV(LimitOffset(Rows(db[t]), PREVIEW_ROWS, 0))

get_table_columns(db, t) ==
    IF t \notin Tables THEN ListV(<<>>) ELSE ListV(TableColumns)

EmptyPage == [records |-> <<>>, total_count |-> 0, total_pages |-> 0]

get_paginated_records(db, t, page, size) ==
    IF ~_validate_table_exists(t) THEN EmptyPage
    ELSE [records |-> LimitOffset(Rows(db[t]), size, (page - 1) * size),
          total_count |-> Len(Rows(db[t])),
          total_pages |-> Ceil(Len(Rows(db[t])), size)]

\* A write returns [ret, db, committed, raised]: the value returned (or the
\* exception raised), the table contents afterwards, whether a change was
\* committed.
WriteResult(ret, db, committed, raised) ==
    [ret |-> ret, db |-> db, committed |-> committed, raised |-> raised]

FreeIds(tbl) == {i \in RowIds : tbl[i] = NoRow /\ \A j \in RowIds : j > i => tbl[j] = NoRow}

\* cursor.lastrowid after the INSERT of row i: the value generated for the
\* AUTO_INCREMENT column, and 0 for a table that has none
lastrowid(i, auto) == IF auto THEN i ELSE 0

\* data is the value given for column col; "" and None are filtered out.
\* auto: the key of the table is an AUTO_INCREMENT column (otherwise the row
\* takes the key the caller gave, the least free one here)
create_record(db, t, col, val, auto) ==
    IF val = "" THEN WriteResult(None, db, FALSE, FALSE)
    ELSE IF t \notin Tables \/ col \notin Range(TableColumns)
    THEN WriteResult(None, db, FALSE, FALSE)
    ELSE LET i == CHOOSE x \in FreeIds(db[t]) : \A y \in FreeIds(db[t]) : x <= y
         IN WriteResult(IntV(lastrowid(i, auto)), [db EXCEPT ![t][i] = val], TRUE, FALSE)

update_record(db, t, id, col, val) ==
    IF ~_validate_table_exists(t) THEN WriteResult(None, db, FALSE, TRUE)
    ELSE IF _validate_columns(<<col>>) = <<>> THEN WriteResult(None, db, FALSE, TRUE)
    ELSE IF id \notin RowIds \/ db[t][id] = NoRow
    THEN WriteResult(BoolV(FALSE), db, FALSE, FALSE)
    ELSE WriteResult(BoolV(TRUE), [db EXCEPT ![t][id] = val], TRUE, FALSE)

delete_record(db, t, id) ==
    IF ~_validate_table_exists(t) THEN WriteResult(BoolV(FALSE), db, FALSE, FALSE)
    ELSE IF id \notin RowIds \/ db[t][id] = NoRow
    THEN WriteResult(BoolV(FALSE), db, FALSE, FALSE)
    ELSE WriteResult(BoolV(TRUE), [db EXCEPT ![t][id] = NoRow], TRUE, FALSE)

bulk_delete_records(db, t, ids) ==
    IF ~_validate_table_exists(t) THEN WriteResult(IntV(0), db, FALSE, FALSE)
    ELSE LET hit == {i \in ids : i \in RowIds /\ db[t][i] # NoRow}
         IN WriteResult(IntV(Cardinality(hit)),
                        [db EXCEPT ![t] = [i \in RowIds |-> IF i \in hit THEN NoRow ELSE @[i]]],
                        hit # {}, FALSE)

\* ----------------------------------------------------------- the cache layer
\* A stored entry: the payload text, its TTL, and as history src, the number
\* of backend writes the value was computed after, and py, the value that
\* was handed to set_cache.
Entry(val, expire, src) ==
    [txt |-> Serialize(val).txt, v |-> Serialize(val).v, ttl |-> expire, src |-> src,
     py |-> val]

\* set_cache: a fault of the store is logged and reported as False
set_cache(st, k, val, expire, src, fault) ==
    IF fault THEN [ok |-> FALSE, st |-> st]
    ELSE [ok |-> TRUE, st |-> Put(st, k, Entry(val, expire, src))]

\* get_cache as it would be if a fault were reported as False, the way
\* set_cache reports one
get_cache_false(st, k, fault, delFault) ==
    IF fault THEN [val |-> BoolV(FALSE), src |-> 0, st |-> st]
    ELSE IF k \notin DOMAIN st THEN [val |-> None, src |-> 0, st |-> st]
    ELSE IF st[k].txt = "empty" THEN [val |-> None, src |-> 0, st |-> st]
    ELSE IF st[k].txt = "json" THEN [val |-> st[k].v, src |-> st[k].src, st |-> st]
    ELSE IF delFault THEN [val |-> None, src |-> 0, st |-> st]
    ELSE [val |-> None, src |-> 0, st |-> Drop(st, {k})]

\* get_cache as it would be without the delete in its JSONDecodeError branch
get_cache_keep(st, k, fault, delFault) ==
    IF fault \/ k \notin DOMAIN st THEN [val |-> None, src |-> 0, st |-> st]
    ELSE IF st[k].txt = "json" THEN [val |-> st[k].v, src |-> st[k].src, st |-> st]
    ELSE [val |-> None, src |-> 0, st |-> st]

\* get_cache: a fault is a miss; text that does not parse is deleted (unless
\* that delete faults too) and is a miss; the empty string is a miss.
get_cache(st, k, fault, delFault) ==
    IF fault \/ k \notin DOMAIN st THEN [val |-> None, src |-> 0, st |-> st]
    ELSE IF st[k].txt = "empty" THEN [val |-> None, src |-> 0, st |-> st]
    ELSE IF st[k].txt = "json" THEN [val |-> st[k].v, src |-> st[k].src, st |-> st]
    ELSE IF delFault THEN [val |-> None, src |-> 0, st |-> st]
    ELSE [val |-> None, src |-> 0, st |-> Drop(st, {k})]

get_connection_info(st, s, fault, delFault) == get_cache(st, ConnKey(s), fault, delFault)

\* ------------------------------------------------------------------ routes
CachedKinds == {"all_tables", "columns", "count", "preview", "records"}
UncachedReads == {"selected", "single", "schema"}
Writes == {"insert", "update", "delete", "bulk_delete"}
Ops == CachedKinds \cup UncachedReads \cup Writes \cup {"connect", "disconnect"}

\* the derived key a cached read uses
DerivedKey(op, s, t, page, size) ==
    CASE op = "all_tables" -> AllTablesKey(s)
      [] op = "columns" -> ColumnsKey(s, t)
      [] op = "count" -> CountKey(s, t)
      [] op = "preview" -> PreviewKey(s, t)
      [] OTHER -> RecordsKey(s, t, page, size)

Expire(op) ==
    CASE op \in {"all_tables", "columns"} -> DEFAULT_EXPIRE
      [] op = "preview" -> PREVIEW_EXPIRE
      [] OTHER -> RECORDS_EXPIRE

\* the test a route applies to what get_cache returned
IsHit(op, val) == IF op = "count" THEN val.ty # "none" ELSE Truthy(val)

\* what the adapter returns for a cached read; for "records" the route adds
\* table, page and page_size before it caches and returns the dict
AdapterRead(op, db, t, page, size) ==
    CASE op = "all_tables" -> get_all_tables(db)
      [] op = "columns" -> get_table_columns(db, t)
      [] op = "count" -> get_table_record_count(db, t)
      [] op = "preview" -> get_first_10_records(db, t)
      [] OTHER -> LET r == get_paginated_records(db, t, page, size)
                  IN DictV([records |-> r.records, total_count |-> r.total_count,
                            total_pages |-> r.total_pages,
                            table |-> t, page |-> page, page_size |-> size])

\* the body a cached read route returns for a value (cached or fresh)
Body(op, t, val) ==
    CASE op = "columns" ->
           DictV([columns |-> [i \in DOMAIN val.v |-> [name |-> val.v[i], type |-> "unknown"]]])
      [] op = "count" -> DictV([table |-> t, count |-> val.v])
      [] OTHER -> val

Resp(status, success, detail, cause, data) ==
    [status |-> status, success |-> success, detail |-> detail, cause |-> cause, data |-> data]

NoResp == Resp(0, FALSE, "", "", None)

\* what the caller gets when an exception is raised inside the route body: the
\* routes without try let an HTTPException(status, detail) through, the others
\* catch every Exception and wrap it
OnException(op, status, detail) ==
    CASE op \in CachedKinds -> Resp(status, FALSE, detail, "", None)
      [] op = "selected" -> Resp(500, FALSE, "Error retrieving selected columns", detail, None)
      [] op = "single" -> Resp(500, FALSE, "Error retrieving record", detail, None)
      [] op = "schema" -> Resp(500, FALSE, "Error getting table schema", detail, None)
      [] op = "insert" -> Resp(500, FALSE, "Error creating record", detail, None)
      [] op = "update" -> Resp(500, FALSE, "Error updating record", detail, None)
      [] op = "delete" -> Resp(500, FALSE, "Error deleting record", detail, None)
      [] op = "bulk_delete" -> Resp(200, FALSE, "Error deleting records", detail, IntV(0))
      [] op = "disconnect" -> Resp(500, FALSE, "Error disconnecting", detail, None)
      [] OTHER -> Resp(status, FALSE, detail, "", None)

\* get_db_connection raises 401 when the token has no descriptor; the
\* clear-all route, which disconnect calls first, raises 404
SessionMissing(op) ==
    IF op = "disconnect"
    THEN OnException(op, 404, "Session not found or expired")
    ELSE OnException(op, 401, "Invalid or expired session")

ConnectFailed(op) == OnException(op, 500, "Failed to connect to database")

\* ------------------------------------------------- the statements issued
\* A statement is [interp, confirm]: the identifiers interpolated into its
\* text, and the identifiers a catalog lookup with bound parameters found to
\* exist.  A trace is the sequence of statements one request issues.
Ident(role, name) == <<role, name>>
Stmt(names) == [interp |-> names, confirm |-> {}]
CatalogTable(t) ==
    [interp |-> {}, confirm |-> IF t \in Tables THEN {Ident("table", t)} ELSE {}]
CatalogColumn(t, c) ==
    [interp |-> {},
     confirm |-> IF t \in Tables /\ c \in Range(TableColumns) THEN {Ident("column", c)} ELSE {}]
CatalogKey(t) ==
    [interp |-> {},
     confirm |-> IF t \in Tables
                 THEN {Ident("table", t), Ident("column", TableColumns[1])} ELSE {}]

KeyLookup(t) ==
    IF t \in Tables THEN <<CatalogKey(t)>>
    ELSE <<CatalogKey(t), Stmt({Ident("table", t)})>>

Trace(op, t, col) ==
    LET T == Ident("table", t)
        K == Ident("column", _get_primary_key_or_first_column(t))
        C == Ident("column", col)
    IN CASE op = "all_tables" -> <<Stmt({})>>
         [] op = "columns" -> <<Stmt({T})>>
         [] op \in {"count", "preview"} ->
              <<CatalogTable(t)>> \o (IF t \in Tables THEN <<Stmt({T})>> ELSE <<>>)
         [] op = "records" ->
              <<CatalogTable(t)>> \o (IF t \in Tables THEN <<Stmt({T}), Stmt({T})>> ELSE <<>>)
         [] op = "selected" ->
              <<Stmt({T})>> \o (IF t \in Tables THEN <<Stmt({T, C})>> ELSE <<>>)
         [] op = "single" -> KeyLookup(t) \o <<Stmt({T, K})>>
         [] op = "schema" -> <<Stmt({T})>>
         [] op = "insert" -> <<Stmt({T, C})>>
         [] op = "update" ->
              <<CatalogTable(t)>> \o
              (IF t \notin Tables THEN <<>>
               ELSE <<CatalogColumn(t, col)>> \o
                    (IF col \notin Range(TableColumns) THEN <<>>
                     ELSE KeyLookup(t) \o <<Stmt({T, C, K})>>))
         [] op \in {"delete", "bulk_delete"} ->
              <<CatalogTable(t)>> \o
              (IF t \in Tables THEN KeyLookup(t) \o <<Stmt({T, K})>> ELSE <<>>)
         [] OTHER -> <<>>

\* identifiers interpolated into a statement that no earlier statement of
\* the trace confirmed
Unconfirmed(trace) ==
    UNION {trace[i].interp \ UNION {trace[j].confirm : j \in 1..(i - 1)} : i \in DOMAIN trace}

\* ------------------------------------------------------- uncached reads
\* [raised, notfound, val]: the backend raised, no row matched, or the value
ReadResult(raised, notfound, val) == [raised |-> raised, notfound |-> notfound, val |-> val]

get_single_record(db, t, id) ==
    IF t \notin Tables THEN ReadResult(TRUE, FALSE, None)
    ELSE IF db[t][id] = NoRow THEN ReadResult(FALSE, TRUE, None)
    ELSE ReadResult(FALSE, FALSE, DictV([record |-> RowOf(db[t], id), table |-> t, record_id |-> id]))

get_selected_columns_records(db, t, col, page, size) ==
    IF t \notin Tables \/ col \notin Range(TableColumns) THEN ReadResult(TRUE, FALSE, None)
    ELSE LET rows == LimitOffset(Rows(db[t]), size, (page - 1) * size)
         IN ReadResult(FALSE, FALSE,
               DictV([table |-> t, columns |-> <<col>>, page |-> page, page_size |-> size,
                      total_count |-> Len(Rows(db[t])),
                      total_pages |-> Ceil(Len(Rows(db[t])), size),
                      records |-> [i \in DOMAIN rows |-> [c |-> rows[i].c]]]))

get_table_schema(db, t) ==
    IF t \notin Tables THEN ReadResult(TRUE, FALSE, None)
    ELSE ReadResult(FALSE, FALSE, DictV([table_name |-> t, columns |-> TableColumns]))

UncachedRead(op, db, t, id, col, page, size) ==
    CASE op = "single" -> get_single_record(db, t, id)
      [] op = "selected" -> get_selected_columns_records(db, t, col, page, size)
      [] OTHER -> get_table_schema(db, t)

\* ------------------------------------------------------------------- state
VARIABLES
    store,      \* the cache store: key -> entry, for the keys present
    db,         \* the backend: table -> row id -> value
    ver,        \* history: table -> number of committed writes
    issued,     \* session tokens handed out by connect
    ack,        \* history: token -> table -> ver of the last write acknowledged
    wl,         \* the callers of this behaviour: the routes and the table names
                \* they ask for, and the workers that serve them
    req,        \* the request each worker is serving
    heap,       \* a table as the backend stores it: its rows in scan order
    call,       \* the last get_paginated_records call on heap and what it returned
    seed,       \* worker process -> the salt of its interpreter's str hashes
    sel,        \* the last get_cached_selected_columns_records call, if it was
                \* the last thing to happen
    tab,        \* the declaration of the tables: pk, the key is a column the
                \* backend generates
    recop,      \* the last record operation of an adapter on heap and its result
    ad,         \* the adapter object of the request each worker is serving
    nsc         \* the last call of a cache function on the store and its result

vars == <<store, db, ver, issued, ack, wl, req, heap, call, seed, sel, tab, recop, ad, nsc>>

\* no table declared, no record operation yet, no adapter constructed
NoTab == [pk |-> FALSE]

NoNs == [fn |-> "", s |-> "", t |-> "", before |-> <<>>, ret |-> 0, ok |-> FALSE,
         faulted |-> FALSE, kind |-> "", hit |-> [ty |-> "none", v |-> 0],
         miss |-> [ty |-> "none", v |-> 0]]

NoRec == [op |-> "", adapter |-> "", data |-> [columns |-> <<>>, id |-> 0, c |-> ""],
          id |-> "", ret |-> None, raised |-> FALSE, count |-> 0, got |-> None,
          deleted_count |-> 0]

NoAd == [pc |-> "idle", route |-> "", kind |-> "", constructed |-> FALSE, handle |-> "none",
         conn |-> "none", closes |-> 0, raised |-> FALSE, stored |-> FALSE, token |-> "",
         status |-> 0]

NoSel == [op |-> "", proc |-> 0, columns |-> <<>>, page |-> 0, key |-> <<>>, val |-> None]

NoCall == [adapter |-> "", variant |-> 0, page |-> 0, size |-> 0, columns |-> <<>>,
           failed |-> FALSE,
           out |-> [records |-> <<>>, total_count |-> 0, total_pages |-> 0]]

Idle ==
    [pc |-> "idle", op |-> "", s |-> "", t |-> "", need |-> 0, val |-> None, src |-> 0,
     hit |-> FALSE, resolved |-> FALSE, flt |-> {}, pats |-> <<>>, pi |-> 0, cap |-> {},
     total |-> 0, committed |-> FALSE, wver |-> 0, pre |-> {}, swept |-> FALSE,
     removed |-> 0, trace |-> <<>>, resp |-> NoResp]

\* The callers of one behaviour connect once and use one cached read route
\* and one other route, on one table name (known or unknown), with any token,
\* through one worker, while the store may fault, expire or damage entries;
\* or one cached read route and one write route on an existing table, with
\* the token of the session, through all workers at once, on a sound store.
Sequential ==
    {[ops |-> {k, o}, names |-> {t}, tokens |-> Tokens, procs |-> {1}, faulty |-> TRUE,
      sessions |-> 1] :
        k \in CachedKinds, o \in Ops \ (CachedKinds \cup {"connect"}), t \in TableNames}

Concurrent ==
    {[ops |-> {k, o}, names |-> {t}, tokens |-> {TokenSeq[1]}, procs |-> Procs, faulty |-> FALSE,
      sessions |-> 1] :
        k \in {"records", "count"}, o \in {"delete", "insert"}, t \in Tables}

\* or two sessions connected to the same database, each with its own token,
\* one cached read route and one write route on an existing table, through
\* one worker, on a sound store
Shared ==
    {[ops |-> {k, o}, names |-> {t}, tokens |-> Tokens, procs |-> {1}, faulty |-> FALSE,
      sessions |-> 2] :
        k \in {"records", "count"}, o \in {"insert", "update"}, t \in Tables}

Workloads == Sequential \cup Concurrent \cup Shared

Init ==
    /\ store = <<>>
    /\ db = [t \in Tables |-> [i \in RowIds |-> IF i = 1 THEN "a" ELSE NoRow]]
    /\ ver = [t \in Tables |-> 0]
    /\ issued = {}
    /\ ack = [s \in Tokens |-> [t \in Tables |-> 0]]
    /\ wl \in Workloads
    /\ req = [p \in Procs |-> Idle]
    /\ heap = <<>>
    /\ call = NoCall
    /\ seed = [p \in Procs |-> 1]
    /\ sel = NoSel
    /\ tab \in [pk : BOOLEAN]
    /\ recop = NoRec
    /\ ad = [p \in Procs |-> NoAd]
    /\ nsc = NoNs

Max(a, b) == IF a > b THEN a ELSE b

\* keys of the namespace of (s, t): the keys with prefix "s:table:t:"
Namespace(st, s, t) ==
    {k \in DOMAIN st : Len(k) >= 4 /\ k[1] = s /\ k[2] = "table" /\ k[3] = t}

\* history: keys removed from the store are no longer pending for any request
Forget(rq, ks) == [q \in Procs |-> [rq[q] EXCEPT !.pre = @ \ ks]]

Respond(r, resp) == [r EXCEPT !.pc = "done", !.resp = resp]

\* outcomes of a cache command (does it fault) and of a backend connect (does
\* it succeed) in the behaviour's workload
Faults == IF wl.faulty THEN BOOLEAN ELSE {FALSE}

Ups == IF wl.faulty THEN BOOLEAN ELSE {TRUE}

\* history: what happened inside one get_cache call
GetTags(st, st1, k, fault, delFault) ==
    (IF fault THEN {"get"} ELSE {}) \cup
    (IF ~fault /\ k \in DOMAIN st /\ st[k].txt = "raw" /\ delFault THEN {"del"} ELSE {}) \cup
    (IF k \in DOMAIN st /\ k \notin DOMAIN st1 THEN {"healed"} ELSE {})

\* ------------------------------------------------------------ request start
\* write requests on table t that have not reached their commit yet
Pending(t) == {q \in Procs : req[q].op \in Writes /\ req[q].t = t /\ req[q].pc \in {"resolve", "exec"}}

Start(p) ==
    /\ req[p].pc = "idle"
    /\ p \in wl.procs
    /\ \E op \in wl.ops, s \in wl.tokens, t \in wl.names :
        /\ (op \in Writes /\ t \in Tables) => ver[t] + Cardinality(Pending(t)) < MaxWrites
        /\ (op = "insert" /\ t \in Tables) =>
              Cardinality(FreeIds(db[t])) > Cardinality({q \in Pending(t) : req[q].op = "insert"})
        /\ req' = [req EXCEPT ![p] =
              [Idle EXCEPT !.pc = IF op \in CachedKinds THEN "get" ELSE "resolve",
                           !.op = op, !.s = s, !.t = t,
                           !.need = IF t \in Tables THEN ack[s][t] ELSE 0]]
    /\ UNCHANGED <<store, db, ver, issued, ack, wl, heap, call, seed, sel, tab, recop, ad, nsc>>

\* bulk delete with an empty id list returns before it opens a connection
StartEmptyBulk(p) ==
    /\ req[p].pc = "idle"
    /\ p \in wl.procs
    /\ "bulk_delete" \in wl.ops
    /\ \E s \in wl.tokens, t \in wl.names :
        req' = [req EXCEPT ![p] =
              Respond([Idle EXCEPT !.op = "bulk_delete", !.s = s, !.t = t],
                      Resp(200, FALSE, "No record IDs provided", "", IntV(0)))]
    /\ UNCHANGED <<store, db, ver, issued, ack, wl, heap, call, seed, sel, tab, recop, ad, nsc>>

\* --------------------------------------------------------- cached read routes
\* get_cached_*: on a hit the route returns the cached value
CacheGet(p) ==
    LET r == req[p]
        k == DerivedKey(r.op, r.s, r.t, PageNo, PageSize)
    IN /\ r.pc = "get"
       /\ \E fault \in Faults, delFault \in Faults :
            LET g == get_cache(store, k, fault, delFault)
                r1 == [r EXCEPT !.flt = @ \cup GetTags(store, g.st, k, fault, delFault)]
            IN /\ store' = g.st
               /\ req' = [Forget(req, (DOMAIN store) \ (DOMAIN g.st)) EXCEPT ![p] =
                    IF IsHit(r.op, g.val)
                    THEN Respond([r1 EXCEPT !.hit = TRUE, !.val = g.val, !.src = g.src],
                                 Resp(200, TRUE, "", "", Body(r.op, r.t, g.val)))
                    ELSE [r1 EXCEPT !.pc = "resolve"]]
       /\ UNCHANGED <<db, ver, issued, ack, wl, heap, call, seed, sel, tab, recop, ad, nsc>>

\* get_db_connection / clear_all_cache: resolve the token to its descriptor
Resolve(p) ==
    LET r == req[p]
    IN /\ r.pc = "resolve"
       /\ \E fault \in Faults, delFault \in Faults :
            LET g == get_connection_info(store, r.s, fault, delFault)
                r1 == [r EXCEPT !.flt = @ \cup
                         (IF ConnKey(r.s) \in DOMAIN store THEN {} ELSE {"nosession"}) \cup
                         (GetTags(store, g.st, ConnKey(r.s), fault, delFault) \ {"get"}) \cup
                         (IF fault THEN {"lookup"} ELSE {})]
            IN /\ store' = g.st
               /\ req' = [Forget(req, (DOMAIN store) \ (DOMAIN g.st)) EXCEPT ![p] =
                    IF ~Truthy(g.val)
                    THEN Respond(r1, SessionMissing(r.op))
                    ELSE [r1 EXCEPT !.resolved = TRUE,
                                   !.pc = CASE r.op \in Writes -> "exec"
                                            [] r.op = "disconnect" -> "scan"
                                            [] OTHER -> "query",
                                   !.pats = IF r.op = "disconnect"
                                            THEN SessionPatterns(r.s) ELSE <<>>,
                                   !.pi = 1]]
       /\ UNCHANGED <<db, ver, issued, ack, wl, heap, call, seed, sel, tab, recop, ad, nsc>>

\* with get_db_connection(...) as db: the adapter call of a read route
Query(p) ==
    LET r == req[p]
    IN /\ r.pc = "query"
       /\ \E up \in Ups, id \in RowIds, col \in ColumnNames :
            req' = [req EXCEPT ![p] =
              IF ~up THEN Respond([r EXCEPT !.flt = @ \cup {"connect"}], ConnectFailed(r.op))
              ELSE IF r.op \in CachedKinds
              THEN [r EXCEPT !.pc = "set",
                             !.val = AdapterRead(r.op, db, r.t, PageNo, PageSize),
                             !.src = IF r.t \in Tables THEN ver[r.t] ELSE 0,
                             !.trace = Trace(r.op, r.t, col)]
              ELSE LET u == UncachedRead(r.op, db, r.t, id, col, PageNo, PageSize)
                       r1 == [r EXCEPT !.trace = Trace(r.op, r.t, col),
                                       !.src = IF r.t \in Tables THEN ver[r.t] ELSE 0]
                   IN IF u.raised THEN Respond(r1, OnException(r.op, 500, "backend error"))
                      ELSE IF u.notfound
                      THEN Respond(r1, OnException(r.op, 404, "Record not found"))
                      ELSE Respond([r1 EXCEPT !.val = u.val], Resp(200, TRUE, "", "", u.val))]
       /\ UNCHANGED <<store, db, ver, issued, ack, wl, heap, call, seed, sel, tab, recop, ad, nsc>>

\* cache_table_*: store the adapter's value, then return it
CacheSet(p) ==
    LET r == req[p]
        k == DerivedKey(r.op, r.s, r.t, PageNo, PageSize)
    IN /\ r.pc = "set"
       /\ \E fault \in Faults :
            LET w == set_cache(store, k, r.val, Expire(r.op), r.src, fault)
            IN /\ store' = w.st
               /\ req' = [req EXCEPT ![p] =
                    Respond([r EXCEPT !.flt = IF fault THEN @ \cup {"set"} ELSE @],
                            Resp(200, TRUE, "", "", Body(r.op, r.t, r.val)))]
       /\ UNCHANGED <<db, ver, issued, ack, wl, heap, call, seed, sel, tab, recop, ad, nsc>>

\* --------------------------------------------------------------- write routes
WriteOk(r) ==
    CASE r.op = "insert" -> Resp(200, TRUE, "Successfully created new record", "", r.val)
      [] r.op = "update" -> Resp(200, TRUE, "Successfully updated record", "", None)
      [] r.op = "delete" -> Resp(200, TRUE, "Successfully deleted record", "", IntV(1))
      [] OTHER -> Resp(200, TRUE, "Successfully deleted record(s)", "", r.val)

\* a route that reports success whatever the adapter returned
WriteReported(r) == WriteOk(r)

WriteFailed(r) ==
    CASE r.op = "insert" -> Resp(200, FALSE, "Failed to create record", "", None)
      [] r.op = "update" -> Resp(200, FALSE, "Failed to update record", "", None)
      [] r.op = "delete" -> Resp(200, FALSE, "Failed to delete record", "", None)
      [] OTHER -> Resp(200, TRUE, "Successfully deleted record(s)", "", IntV(0))

AdapterWrite(op, d, t, id, col, val, ids) ==
    CASE op = "insert" -> create_record(d, t, col, val, tab.pk)
      [] op = "update" -> update_record(d, t, id, col, val)
      [] op = "delete" -> delete_record(d, t, id)
      [] OTHER -> bulk_delete_records(d, t, ids)

\* the route's test of what the adapter returned: if record_id / if success /
\* if deleted_count > 0
Invalidates(op, ret) == IF op = "bulk_delete" THEN ret.v > 0 ELSE Truthy(ret)

\* with get_db_connection(...) as db: the adapter call of a write route, up
\* to and including the commit
Exec(p) ==
    LET r == req[p]
    IN /\ r.pc = "exec"
       /\ \E up \in Ups, id \in RowIds, col \in ColumnNames, val \in Vals \cup {""},
             ids \in (SUBSET RowIds) \ {{}} :
            LET w == AdapterWrite(r.op, db, r.t, id, col, val, ids)
                r1 == [r EXCEPT !.trace = Trace(r.op, r.t, col), !.val = w.ret,
                                !.committed = w.committed]
            IN IF ~up
               THEN /\ req' = [req EXCEPT ![p] =
                          Respond([r EXCEPT !.flt = @ \cup {"connect"}], ConnectFailed(r.op))]
                    /\ UNCHANGED <<db, ver>>
               ELSE /\ db' = w.db
                    /\ ver' = IF w.committed THEN [ver EXCEPT ![r.t] = @ + 1] ELSE ver
                    /\ req' = [req EXCEPT ![p] =
                          IF w.raised
                          THEN Respond(r1, OnException(r.op, 500, "backend error"))
                          ELSE IF Invalidates(r.op, w.ret)
                          THEN [r1 EXCEPT !.pc = "scan",
                                          !.pats = TablePatterns(r.s, r.t), !.pi = 1,
                                          !.wver = ver'[r.t],
                                          !.pre = Namespace(store, r.s, r.t)]
                          ELSE Respond(r1, WriteFailed(r))]
       /\ UNCHANGED <<store, issued, ack, wl, heap, call, seed, sel, tab, recop, ad, nsc>>

\* ------------------------------------ invalidate_table_cache / clear_all_session_cache
\* the loop over the patterns: KEYS, then DEL of the keys found.  A fault of
\* either command leaves the loop; the function logs it and returns 0.
AfterSweep(r) ==
    IF r.op = "disconnect" THEN [r EXCEPT !.pc = "delconn"]
    ELSE Respond(r, WriteOk(r))

Aborted(r) == AfterSweep([r EXCEPT !.flt = @ \cup {"sweep"}, !.total = 0])

Advance(r) ==
    IF r.pi < Len(r.pats) THEN [r EXCEPT !.pc = "scan", !.pi = @ + 1, !.cap = {}]
    ELSE AfterSweep([r EXCEPT !.swept = TRUE, !.cap = {}])

\* history: a write is acknowledged when it has reported success after an
\* invalidation that ran to its end
Acked(a, r) ==
    IF r.pc = "done" /\ r.op \in Writes /\ r.committed /\ r.resp.success /\ r.swept
    THEN [a EXCEPT ![r.s][r.t] = Max(@, r.wver)]
    ELSE a

Scan(p) ==
    LET r == req[p]
    IN /\ r.pc = "scan"
       /\ \E fault \in Faults :
            LET found == Keys(store, r.pats[r.pi])
                r1 == IF fault THEN Aborted(r)
                      ELSE IF found = {} THEN Advance(r)
                      ELSE [r EXCEPT !.pc = "del", !.cap = found]
            IN /\ req' = [req EXCEPT ![p] = r1]
               /\ ack' = Acked(ack, r1)
       /\ UNCHANGED <<store, db, ver, issued, wl, heap, call, seed, sel, tab, recop, ad, nsc>>

Del(p) ==
    LET r == req[p]
    IN /\ r.pc = "del"
       /\ \E fault \in Faults :
            LET deleted == r.cap \cap DOMAIN store
                r1 == IF fault THEN Aborted(r)
                      ELSE Advance([r EXCEPT !.total = @ + Cardinality(deleted),
                                             !.removed = @ + Cardinality(deleted)])
            IN /\ store' = IF fault THEN store ELSE Drop(store, deleted)
               /\ req' = [Forget(req, (DOMAIN store) \ (DOMAIN store')) EXCEPT ![p] =
                            [r1 EXCEPT !.pre = @ \ ((DOMAIN store) \ (DOMAIN store'))]]
               /\ ack' = Acked(ack, r1)
       /\ UNCHANGED <<db, ver, issued, wl, heap, call, seed, sel, tab, recop, ad, nsc>>

\* --------------------------------------------------------- connection routes
\* a delete of the descriptor that takes the session's derived entries along
delete_connection_info_all(st, s, fault) ==
    IF fault THEN [ok |-> FALSE, st |-> st]
    ELSE [ok |-> ConnKey(s) \in DOMAIN st,
          st |-> Drop(st, {k \in DOMAIN st : k = ConnKey(s) \/ k[1] = s})]

\* redis_client.delete(connection:S) and bool() of its count; a fault of the
\* command is logged and False is returned
delete_connection_info(st, s, fault) ==
    IF fault THEN [ok |-> FALSE, st |-> st]
    ELSE [ok |-> ConnKey(s) \in DOMAIN st, st |-> Drop(st, {ConnKey(s)})]

\* disconnect_db, after clear_all_cache returned
DelConn(p) ==
    LET r == req[p]
    IN /\ r.pc = "delconn"
       /\ \E fault \in Faults :
            LET d == delete_connection_info(store, r.s, fault)
            IN /\ store' = d.st
               /\ req' = [Forget(req, (DOMAIN store) \ (DOMAIN d.st)) EXCEPT ![p] =
                    Respond(r, Resp(200, TRUE, "Successfully disconnected from database", "",
                                    IntV(r.total)))]
       /\ UNCHANGED <<db, ver, issued, ack, wl, heap, call, seed, sel, tab, recop, ad, nsc>>

Descriptor == DictV([db_type |-> "mysql", database |-> "db"])

\* connect_to_db: db.connect, then uuid4
ConnOpen(p) ==
    /\ req[p].pc = "idle"
    /\ p \in wl.procs
    /\ Cardinality(issued) < wl.sessions
    /\ \E up \in Ups, s \in {TokenSeq[Cardinality(issued) + 1]} :
         IF ~up
         THEN /\ req' = [req EXCEPT ![p] =
                    Respond([Idle EXCEPT !.op = "connect", !.flt = {"connect"}],
                            Resp(400, FALSE, "Database connection failed", "", None))]
              /\ UNCHANGED issued
         ELSE /\ req' = [req EXCEPT ![p] = [Idle EXCEPT !.op = "connect", !.s = s, !.pc = "store"]]
              /\ issued' = issued \cup {s}
    /\ UNCHANGED <<store, db, ver, ack, wl, heap, call, seed, sel, tab, recop, ad, nsc>>

\* connect_to_db: store_connection_info, get_all_tables, the response
ConnStore(p) ==
    LET r == req[p]
    IN /\ r.pc = "store"
       /\ \E fault \in Faults :
            LET w == set_cache(store, ConnKey(r.s), Descriptor, DEFAULT_EXPIRE, 0, fault)
            IN /\ store' = w.st
               /\ req' = [req EXCEPT ![p] =
                    Respond([r EXCEPT !.flt = IF fault THEN @ \cup {"set"} ELSE @,
                                      !.val = get_all_tables(db)],
                            Resp(200, TRUE, "", "", StrV(r.s)))]
       /\ UNCHANGED <<db, ver, issued, ack, wl, heap, call, seed, sel, tab, recop, ad, nsc>>

\* the response has been sent
Finish(p) ==
    /\ req[p].pc = "done"
    /\ req' = [req EXCEPT ![p] = Idle]
    /\ UNCHANGED <<store, db, ver, issued, ack, wl, heap, call, seed, sel, tab, recop, ad, nsc>>

\* ----------------------------------------------------------- the cache store
\* the TTL of an entry runs out
ExpireKey ==
    /\ wl.faulty
    /\ \E k \in DOMAIN store :
         /\ store' = Drop(store, {k})
         /\ req' = Forget(req, {k})
    /\ UNCHANGED <<db, ver, issued, ack, wl, heap, call, seed, sel, tab, recop, ad, nsc>>

\* a stored payload is damaged: what is left is no JSON text, or nothing
Corrupt ==
    /\ wl.faulty
    /\ \E k \in DOMAIN store, txt \in {"raw", "empty"} :
         /\ store[k].txt = "json"
         /\ store' = [store EXCEPT ![k] = [@ EXCEPT !.txt = txt, !.v = None]]
    /\ UNCHANGED <<db, ver, issued, ack, wl, req, heap, call, seed, sel, tab, recop, ad, nsc>>

Next ==
    \/ \E p \in Procs : Start(p)
    \/ \E p \in Procs : StartEmptyBulk(p)
    \/ \E p \in Procs : CacheGet(p)
    \/ \E p \in Procs : Resolve(p)
    \/ \E p \in Procs : Query(p)
    \/ \E p \in Procs : CacheSet(p)
    \/ \E p \in Procs : Exec(p)
    \/ \E p \in Procs : Scan(p)
    \/ \E p \in Procs : Del(p)
    \/ \E p \in Procs : DelConn(p)
    \/ \E p \in Procs : ConnOpen(p)
    \/ \E p \in Procs : ConnStore(p)
    \/ \E p \in Procs : Finish(p)
    \/ ExpireKey
    \/ Corrupt

Spec == Init /\ [][Next]_vars

InitSeq == Init /\ wl \in Sequential

\* requests served one at a time, with store faults, expiry and damage
SpecSeq == InitSeq /\ [][Next]_vars

\* ------------------------------------------ get_paginated_records by adapter
\* The table of these calls has the columns of TableColumns, "id" its primary
\* key; the MongoDB collection holds the same rows as documents with "_id".
Adapters == {"mysql", "mssql", "oracle", "mongodb"}

\* the statements an adapter can page with: MSSQL 1 OFFSET/FETCH, 2 ROW_NUMBER,
\* 3 TOP; Oracle 1 ROW_NUMBER, 2 ROWNUM; one statement elsewhere
Variants(a) ==
    CASE a = "mssql" -> 1..3
      [] a = "oracle" -> 1..2
      [] OTHER -> {1}

ColumnsOf(a) == IF a = "mongodb" THEN <<"_id", "c">> ELSE TableColumns

\* a row as the backend of the adapter holds it: column -> value
Stored(a, row) == [f \in Range(ColumnsOf(a)) |-> IF f = "c" THEN row.c ELSE row.id]

\* the tables: up to MaxHeap rows with distinct ids, in any scan order
Heaps ==
    {h \in UNION {[1..n -> [id : 1..MaxHeap, c : Vals]] : n \in 0..MaxHeap} :
        \A i, j \in DOMAIN h : i # j => h[i].id # h[j].id}

\* the column lists a caller passes; <<>> is no list (None)
ColumnLists ==
    {<<>>, <<"c">>, <<"zz">>, <<"c", "id">>, <<"id", "c">>, <<"zz", "c">>, <<"_id">>}

\* _validate_columns of the SQL adapters: the requested columns that exist
valid_columns(a, columns) == SelectSeq(columns, LAMBDA c : c \in Range(ColumnsOf(a)))

\* columns_sql is "*": no list given, or no requested column exists
Star(a, columns) == valid_columns(a, columns) = <<>>

\* a dictionary cursor's row for SELECT columns_sql
DictRow(a, columns, row) ==
    IF Star(a, columns) THEN Stored(a, row)
    ELSE [f \in Range(valid_columns(a, columns)) |-> Stored(a, row)[f]]

\* rows first..last of a scan, as ROW_NUMBER/ROWNUM number them
Between(rows, first, last) ==
    SubSeq(rows, first, IF last > Len(rows) THEN Len(rows) ELSE last)

RECURSIVE OrderFrom(_, _)
OrderFrom(rows, k) ==
    IF k > MaxHeap THEN <<>>
    ELSE SelectSeq(rows, LAMBDA r : r.id = k) \o OrderFrom(rows, k + 1)

\* ORDER BY [id]
OrderById(rows) == OrderFrom(rows, 1)

\* SELECT TOP n
Top(rows, n) == SubSeq(rows, 1, IF n > Len(rows) THEN Len(rows) ELSE n)

mysql_get_paginated_records(h, page, size, columns) ==
    LET rows == LimitOffset(h, size, (page - 1) * size)
    IN [records |-> [i \in DOMAIN rows |-> DictRow("mysql", columns, rows[i])],
        total_count |-> Len(h),
        total_pages |-> Ceil(Len(h), size)]

\* Method 1, OFFSET/FETCH with ORDER BY (SELECT NULL)
mssql_offset_fetch(h, page, size, columns) ==
    LET rows == LimitOffset(h, size, (page - 1) * size)
    IN [i \in DOMAIN rows |-> DictRow("mssql", columns, rows[i])]

\* Method 2, ROW_NUMBER() in a CTE: SELECT * FROM PagedData carries RowNum
mssql_row_number(h, page, size, columns) ==
    LET first == (page - 1) * size + 1
        rows == Between(h, first, page * size)
    IN [i \in DOMAIN rows |->
          IF Star("mssql", columns)
          THEN [f \in Range(TableColumns) \cup {"RowNum"} |->
                   IF f = "RowNum" THEN first + i - 1 ELSE Stored("mssql", rows[i])[f]]
          ELSE DictRow("mssql", columns, rows[i])]

\* Method 3, TOP: page 1 unordered; later pages by key NOT IN the keys before
mssql_top(h, page, size, columns) ==
    LET before == {r.id : r \in Range(Top(OrderById(h), (page - 1) * size))}
        rows == IF page = 1 THEN Top(h, size)
                ELSE Top(OrderById(SelectSeq(h, LAMBDA r : r.id \notin before)), size)
    IN [i \in DOMAIN rows |-> DictRow("mssql", columns, rows[i])]

mssql_get_paginated_records(h, page, size, columns, variant) ==
    [records |-> CASE variant = 1 -> mssql_offset_fetch(h, page, size, columns)
                   [] variant = 2 -> mssql_row_number(h, page, size, columns)
                   [] OTHER -> mssql_top(h, page, size, columns),
     total_count |-> Len(h),
     total_pages |-> Ceil(Len(h), size)]

\* the tuple a plain cursor returns for SELECT columns_sql FROM (t.*, rn)
OracleTuple(columns, row, rn) ==
    IF Star("oracle", columns)
    THEN [i \in 1..(Len(TableColumns) + 1) |->
            IF i > Len(TableColumns) THEN rn ELSE Stored("oracle", row)[TableColumns[i]]]
    ELSE [i \in DOMAIN valid_columns("oracle", columns) |->
            Stored("oracle", row)[valid_columns("oracle", columns)[i]]]

\* both statements number the rows of one scan: ROW_NUMBER() OVER (ORDER BY
\* NULL) BETWEEN first AND last; ROWNUM <= last, then rn >= first
oracle_get_paginated_records(h, page, size, columns, variant) ==
    LET first == (page - 1) * size + 1
        rows == IF variant = 1 THEN Between(h, first, page * size)
                ELSE LET upto == Top(h, page * size)
                     IN SubSeq(upto, first, Len(upto))
        all_columns ==
            IF columns # <<>>
            THEN SelectSeq(TableColumns,
                           LAMBDA c : c \in Range(valid_columns("oracle", columns)))
            ELSE TableColumns
        Index(c) == CHOOSE i \in DOMAIN all_columns : all_columns[i] = c
    IN [records |-> [i \in DOMAIN rows |->
                       [c \in Range(all_columns) |->
                           OracleTuple(columns, rows[i], first + i - 1)[Index(c)]]],
        total_count |-> Len(h),
        total_pages |-> Ceil(Len(h), size)]

\* find({}, projection).skip(skip).limit(page_size); the projection is the
\* requested fields, unchecked, and "_id"
mongodb_get_paginated_records(h, page, size, columns) ==
    LET rows == LimitOffset(h, size, (page - 1) * size)
        fields == IF columns # <<>> THEN Range(columns) \cup {"_id"}
                  ELSE Range(ColumnsOf("mongodb"))
    IN [records |-> [i \in DOMAIN rows |->
                       [f \in fields \cap Range(ColumnsOf("mongodb")) |->
                           Stored("mongodb", rows[i])[f]]],
        total_count |-> Len(h),
        total_pages |-> Ceil(Len(h), size)]

PageBy(a, variant, h, page, size, columns) ==
    CASE a = "mysql" -> mysql_get_paginated_records(h, page, size, columns)
      [] a = "mssql" -> mssql_get_paginated_records(h, page, size, columns, variant)
      [] a = "oracle" -> oracle_get_paginated_records(h, page, size, columns, variant)
      [] OTHER -> mongodb_get_paginated_records(h, page, size, columns)

\* get_paginated_records as a caller sees it: without a connection, for a
\* table that does not exist, or when a statement raises, the adapter logs
\* the error and returns the empty page
PageOrEmpty(a, variant, h, page, size, columns, ok) ==
    IF ok THEN PageBy(a, variant, h, page, size, columns) ELSE EmptyPage

Paginate(a) ==
    /\ call = NoCall
    /\ \E variant \in Variants(a), page \in 1..MaxPage, size \in 1..MaxPageSize,
          columns \in ColumnLists, ok \in BOOLEAN :
         call' = [adapter |-> a, variant |-> variant, page |-> page, size |-> size,
                  columns |-> columns, failed |-> ~ok,
                  out |-> PageOrEmpty(a, variant, heap, page, size, columns, ok)]
    /\ UNCHANGED <<store, db, ver, issued, ack, wl, req, heap, seed, sel, tab, recop, ad, nsc>>

MySQLPage == Paginate("mysql")
MSSQLPage == Paginate("mssql")
OraclePage == Paginate("oracle")
MongoDBPage == Paginate("mongodb")

\* the caller has its page; the next call can be made
PageReturned ==
    /\ call # NoCall
    /\ call' = NoCall
    /\ UNCHANGED <<store, db, ver, issued, ack, wl, req, heap, seed, sel, tab, recop, ad, nsc>>

InitPage ==
    /\ store = <<>>
    /\ db = [t \in Tables |-> [i \in RowIds |-> NoRow]]
    /\ ver = [t \in Tables |-> 0]
    /\ issued = {}
    /\ ack = [s \in Tokens |-> [t \in Tables |-> 0]]
    /\ wl = [ops |-> {}, names |-> {}, tokens |-> {}, procs |-> {}, faulty |-> FALSE,
             sessions |-> 0]
    /\ req = [p \in Procs |-> Idle]
    /\ heap \in Heaps
    /\ call = NoCall
    /\ seed = [p \in Procs |-> 1]
    /\ sel = NoSel
    /\ tab = NoTab
    /\ recop = NoRec
    /\ ad = [p \in Procs |-> NoAd]
    /\ nsc = NoNs

NextPage ==
    \/ MySQLPage
    \/ MSSQLPage
    \/ OraclePage
    \/ MongoDBPage
    \/ PageReturned

\* paginated reads of a table that no one writes
SpecPage == InitPage /\ [][NextPage]_vars

\* ------------------------------------------- the selected-columns page cache
\* The worker processes share the store; each runs its own interpreter.
Seeds == 1..NumSeeds

\* the column lists a caller asks for: duplicate-free, in either order
SelLists ==
    {<<"c">>, <<"id">>, <<"c", "id">>, <<"id", "c">>, <<"c", "zz">>, <<"zz", "c">>}

SelPage(t, columns, page, size) ==
    DictV([table |-> t, columns |-> columns, page |-> page, page_size |-> size])

cache_selected_columns_records(st, salt, s, t, columns, page, size, data) ==
    set_cache(st, SelectedKey(salt, s, t, columns, page, size), data, RECORDS_EXPIRE, 0, FALSE)

get_cached_selected_columns_records(st, salt, s, t, columns, page, size) ==
    get_cache(st, SelectedKey(salt, s, t, columns, page, size), FALSE, FALSE)

SelStore(p) ==
    /\ Cardinality(DOMAIN store) < MaxStored
    /\ \E columns \in SelLists, page \in 1..MaxPage :
         LET w == cache_selected_columns_records(store, seed[p], TokenSeq[1], TableList[1],
                      columns, page, PageSize,
                      SelPage(TableList[1], columns, page, PageSize))
         IN /\ store' = w.st
            /\ sel' = NoSel
    /\ UNCHANGED <<db, ver, issued, ack, wl, req, heap, call, seed, tab, recop, ad, nsc>>

SelGet(p) ==
    /\ \E columns \in SelLists, page \in 1..MaxPage :
         LET k == SelectedKey(seed[p], TokenSeq[1], TableList[1], columns, page, PageSize)
             g == get_cached_selected_columns_records(store, seed[p], TokenSeq[1],
                      TableList[1], columns, page, PageSize)
         IN /\ store' = g.st
            /\ sel' = [op |-> "get", proc |-> p, columns |-> columns, page |-> page,
                       key |-> k, val |-> g.val]
    /\ UNCHANGED <<db, ver, issued, ack, wl, req, heap, call, seed, tab, recop, ad, nsc>>

\* an entry's TTL runs out
SelExpire ==
    /\ \E k \in DOMAIN store : store' = Drop(store, {k})
    /\ sel' = NoSel
    /\ UNCHANGED <<db, ver, issued, ack, wl, req, heap, call, seed, tab, recop, ad, nsc>>

\* a worker process is started again (uvicorn reload, a deploy): a new
\* interpreter, a new salt
Restart(p) ==
    /\ \E salt \in Seeds : seed' = [seed EXCEPT ![p] = salt]
    /\ sel' = NoSel
    /\ UNCHANGED <<store, db, ver, issued, ack, wl, req, heap, call, tab, recop, ad, nsc>>

InitSel ==
    /\ store = <<>>
    /\ db = [t \in Tables |-> [i \in RowIds |-> NoRow]]
    /\ ver = [t \in Tables |-> 0]
    /\ issued = {}
    /\ ack = [s \in Tokens |-> [t \in Tables |-> 0]]
    /\ wl = [ops |-> {}, names |-> {}, tokens |-> {}, procs |-> {}, faulty |-> FALSE,
             sessions |-> 0]
    /\ req = [p \in Procs |-> Idle]
    /\ heap = <<>>
    /\ call = NoCall
    /\ seed \in [Procs -> Seeds]
    /\ sel = NoSel
    /\ tab = NoTab
    /\ recop = NoRec
    /\ ad = [p \in Procs |-> NoAd]
    /\ nsc = NoNs

NextSel ==
    \/ \E p \in Procs : SelStore(p)
    \/ \E p \in Procs : SelGet(p)
    \/ \E p \in Procs : Restart(p)
    \/ SelExpire

\* the selected-columns cache functions called by the workers
SpecSel == InitSel /\ [][NextSel]_vars

\* ---------------------------------------------- record operations by adapter
\* The table of these calls has the columns of TableColumns.  Where tab.pk,
\* "id" is its primary key and the backend generates it when an INSERT gives
\* none (AUTO_INCREMENT, serial, identity, INTEGER PRIMARY KEY); otherwise
\* the table declares no key, "id" is its first column and is NULL (NoId)
\* when an INSERT gives none.
RecAdapters == {"mysql", "postgresql", "oracle", "sqlite"}

NoId == 0

\* str(n) of the ids, and the number a backend reads from such a text when it
\* compares it with a numeric column; a text that is no number matches no row
IdText == <<"1", "2", "3", "4", "5", "6", "7", "8", "9">>

str(n) == IF n = NoId THEN "None" ELSE IdText[n]

AsNumber(text) ==
    IF \E n \in DOMAIN IdText : IdText[n] = text
    THEN CHOOSE n \in DOMAIN IdText : IdText[n] = text
    ELSE NoId

\* the tables: up to MaxHeap rows in scan order, ids distinct under a key
RecHeaps(pk) ==
    {h \in UNION {[1..n -> [id : (IF pk THEN 1 ELSE NoId)..MaxHeap, c : Vals]] :
                     n \in 0..MaxHeap} :
        pk => \A i, j \in DOMAIN h : i # j => h[i].id # h[j].id}

\* the data of an insert: the columns given, in the order of the JSON object,
\* and their values
RecData ==
    {d \in [columns : {<<"c">>, <<"id", "c">>, <<"c", "id">>}, id : NoId..MaxHeap, c : Vals] :
        ("id" \in Range(d.columns)) <=> (d.id # NoId)}

\* SELECT MAX(col) FROM t, as text; text values compare in alphabetic order
SqlMax(h, col) ==
    IF col = "id"
    THEN LET ids == {h[i].id : i \in DOMAIN h} \ {NoId}
         IN IF ids = {} THEN str(NoId)
            ELSE str(CHOOSE x \in ids : \A y \in ids : y <= x)
    ELSE LET cs == {h[i].c : i \in DOMAIN h}
         IN CHOOSE x \in cs : \A y \in cs : Rank(y) <= Rank(x)

\* the id the backend generates for the next row of a keyed table
NextId(h) == AsNumber(SqlMax(h, "id")) + 1

\* INSERT INTO t (columns) VALUES (...): the row, the table afterwards, and
\* whether the statement raised (a duplicate key)
SqlInsert(pk, h, data) ==
    LET row == [id |-> IF data.id # NoId THEN data.id
                       ELSE IF pk THEN NextId(h) ELSE NoId,
                c |-> data.c]
    IN IF pk /\ \E i \in DOMAIN h : h[i].id = row.id
       THEN [row |-> row, h |-> h, raised |-> TRUE]
       ELSE [row |-> row, h |-> Append(h, row), raised |-> FALSE]

\* create_record: MySQL returns cursor.lastrowid and None on an exception;
\* PostgreSQL str(record[0]) of INSERT ... RETURNING *; SQLite
\* str(cursor.lastrowid); Oracle str of SELECT MAX(columns[0]) after the commit
adapter_create_record(a, pk, h, data) ==
    LET w == SqlInsert(pk, h, data)
    IN IF w.raised THEN WriteResult(None, h, FALSE, a # "mysql")
       ELSE WriteResult(
              CASE a = "mysql" -> IntV(IF pk THEN w.row.id ELSE 0)
                [] a = "postgresql" -> StrV(str(w.row.id))
                [] a = "sqlite" -> StrV(str(w.row.id))
                [] OTHER -> StrV(SqlMax(w.h, data.columns[1])),
              w.h, TRUE, FALSE)

\* the id as the caller passes it on: str(record_id)
IdOf(ret) == IF ret.ty = "int" THEN str(ret.v) ELSE ret.v

\* get_record_by_id: SELECT * FROM t WHERE key = id, fetchone; the key is the
\* primary key or the first column, "id" in both tables
get_record_by_id(h, id) ==
    LET hits == SelectSeq(h, LAMBDA r : r.id # NoId /\ r.id = AsNumber(id))
    IN IF hits = <<>> THEN None ELSE DictV(hits[1])

\* delete_record: DELETE FROM t WHERE key = id, commit, rowcount > 0
adapter_delete_record(h, id) ==
    LET left == SelectSeq(h, LAMBDA r : ~(r.id # NoId /\ r.id = AsNumber(id)))
    IN WriteResult(BoolV(Len(left) < Len(h)), left, Len(left) < Len(h), FALSE)

\* insert, then getById of the id returned, with no write in between.  The
\* hidden rowid of a SQLite table without INTEGER PRIMARY KEY is not part of
\* heap, so SQLite inserts are made into the keyed table only.
RecCreate(a) ==
    /\ Len(heap) < MaxHeap
    /\ tab.pk => NextId(heap) <= MaxHeap
    /\ a = "sqlite" => tab.pk
    /\ \E data \in RecData :
         LET w == adapter_create_record(a, tab.pk, heap, data)
         IN /\ heap' = w.db
            /\ recop' = [NoRec EXCEPT !.op = "insert", !.adapter = a, !.data = data,
                                      !.ret = w.ret, !.raised = w.raised,
                                      !.count = Len(heap),
                                      !.got = IF Truthy(w.ret)
                                              THEN get_record_by_id(w.db, IdOf(w.ret))
                                              ELSE None]
    /\ UNCHANGED <<store, db, ver, issued, ack, wl, req, call, seed, sel, tab, ad, nsc>>

\* delete_single_record: the adapter's delete_record, then deleted_count 1
\* when it returned true
RecDelete(a) ==
    /\ \E n \in 1..MaxHeap :
         LET w == adapter_delete_record(heap, str(n))
         IN /\ heap' = w.db
            /\ recop' = [NoRec EXCEPT !.op = "delete", !.adapter = a, !.id = str(n),
                                      !.ret = w.ret, !.count = Len(heap),
                                      !.deleted_count = IF Truthy(w.ret) THEN 1 ELSE 0]
    /\ UNCHANGED <<store, db, ver, issued, ack, wl, req, call, seed, sel, tab, ad, nsc>>

InitRec ==
    /\ store = <<>>
    /\ db = [t \in Tables |-> [i \in RowIds |-> NoRow]]
    /\ ver = [t \in Tables |-> 0]
    /\ issued = {}
    /\ ack = [s \in Tokens |-> [t \in Tables |-> 0]]
    /\ wl = [ops |-> {}, names |-> {}, tokens |-> {}, procs |-> {}, faulty |-> FALSE,
             sessions |-> 0]
    /\ req = [p \in Procs |-> Idle]
    /\ tab \in [pk : BOOLEAN]
    /\ heap \in RecHeaps(tab.pk)
    /\ call = NoCall
    /\ seed = [p \in Procs |-> 1]
    /\ sel = NoSel
    /\ recop = NoRec
    /\ ad = [p \in Procs |-> NoAd]
    /\ nsc = NoNs

NextRec ==
    \/ \E a \in RecAdapters : RecCreate(a)
    \/ \E a \in RecAdapters : RecDelete(a)

\* inserts, lookups and deletes of single records on one table
SpecRec == InitRec /\ [][NextRec]_vars

\* ------------------------------------------------- the life of an adapter
\* An adapter object holds a connection handle (self.conn; self.client of the
\* MongoDB adapter): "none", "open", or "closed" for a handle that is still
\* held after the driver closed it.  conn is what connect() returned.
AdapterKinds == {"mysql", "postgresql", "oracle", "sqlite", "mongodb", "mssql"}

DescriptorOf(kind) == DictV([db_type |-> kind, database |-> "db"])

\* connect(): [handle, conn].  The driver's connect raises and the adapter
\* returns None; the MongoDB adapter assigns self.client before it tests the
\* connection, so a failed test leaves the client held.
adapter_connect(kind) ==
    {[handle |-> "open", conn |-> "live"], [handle |-> "none", conn |-> "none"]}
    \cup (IF kind = "mongodb" THEN {[handle |-> "open", conn |-> "none"]} ELSE {})

\* a close() that keeps the handle it closed
close_keep(a) ==
    IF a.handle # "none"
    THEN [a EXCEPT !.handle = "closed", !.closes = @ + 1, !.raised = (a.handle = "closed")]
    ELSE [a EXCEPT !.closes = @ + 1]

\* close(): if self.conn: self.conn.close(); self.conn = None.  A driver
\* asked to close a connection it closed before may raise.
close(a) ==
    IF a.handle # "none"
    THEN [a EXCEPT !.handle = "none", !.closes = @ + 1, !.raised = (a.handle = "closed")]
    ELSE [a EXCEPT !.closes = @ + 1]

\* a test that lets every connect result pass
connect_never_failed(conn) == FALSE

\* if not conn
connect_failed(conn) == conn = "none"

\* an exception that leaves the function at once
RaiseOut(a, status) == [a EXCEPT !.pc = "done", !.status = status]

\* an exception raised inside the try block: the finally clause runs next
Raise(a, status) == [a EXCEPT !.pc = "finally", !.status = status]

\* connect_to_db: db = DBConnection()
ConnectBegin(p) ==
    /\ ad[p].pc = "idle"
    /\ Cardinality(issued)
         + Cardinality({q \in Procs : ad[q].route = "connect" /\ ad[q].token = ""})
         < Len(TokenSeq)
    /\ \E kind \in AdapterKinds :
         ad' = [ad EXCEPT ![p] = [NoAd EXCEPT !.pc = "connect", !.route = "connect",
                                              !.kind = kind, !.constructed = TRUE]]
    /\ UNCHANGED <<store, db, ver, issued, ack, wl, req, heap, call, seed, sel, tab, recop, nsc>>

\* get_db_connection: the descriptor of the session, the adapter class of its
\* db_type, db = db_class().  The module imported for "mongodb" is
\* mongodbConnector, the file is mongoDbConnector.py: the import fails where
\* file names are case sensitive.
UseBegin(p) ==
    /\ ad[p].pc = "idle"
    /\ \E s \in Tokens, fault \in BOOLEAN, delFault \in BOOLEAN, sensitive \in BOOLEAN :
         LET g == get_connection_info(store, s, fault, delFault)
             a == [NoAd EXCEPT !.route = "use", !.token = s]
         IN /\ store' = g.st
            /\ ad' = [ad EXCEPT ![p] =
                  IF ~Truthy(g.val) THEN RaiseOut(a, 401)
                  ELSE IF g.val.v.db_type = "mongodb" /\ sensitive
                  THEN RaiseOut([a EXCEPT !.kind = "mongodb"], 500)
                  ELSE [a EXCEPT !.pc = "connect", !.kind = g.val.v.db_type,
                                 !.constructed = TRUE]]
    /\ UNCHANGED <<db, ver, issued, ack, wl, req, heap, call, seed, sel, tab, recop, nsc>>

\* conn = db.connect(...); if not conn: raise HTTPException
AdConnect(p) ==
    /\ ad[p].pc = "connect"
    /\ \E c \in adapter_connect(ad[p].kind) :
         LET a == [ad[p] EXCEPT !.handle = c.handle, !.conn = c.conn]
         IN ad' = [ad EXCEPT ![p] =
               IF connect_failed(c.conn)
               THEN Raise(a, IF a.route = "connect" THEN 400 ELSE 500)
               ELSE [a EXCEPT !.pc = IF a.route = "connect" THEN "store" ELSE "body"]]
    /\ UNCHANGED <<store, db, ver, issued, ack, wl, req, heap, call, seed, sel, tab, recop, nsc>>

\* connect_to_db: uuid4, store_connection_info, get_all_tables, the response
AdStore(p) ==
    /\ ad[p].pc = "store"
    /\ \E fault \in BOOLEAN, s \in {TokenSeq[Cardinality(issued) + 1]} :
         LET w == set_cache(store, ConnKey(s), DescriptorOf(ad[p].kind), DEFAULT_EXPIRE, 0,
                            fault)
         IN /\ store' = w.st
            /\ issued' = issued \cup {s}
            /\ ad' = [ad EXCEPT ![p] = [@ EXCEPT !.pc = "finally", !.token = s,
                                                 !.stored = TRUE, !.status = 200]]
    /\ UNCHANGED <<db, ver, ack, wl, req, heap, call, seed, sel, tab, recop, nsc>>

\* with get_db_connection(...) as db: the body returns or raises
AdBody(p) ==
    /\ ad[p].pc = "body"
    /\ \E ok \in BOOLEAN :
         ad' = [ad EXCEPT ![p] = IF ok THEN [@ EXCEPT !.pc = "finally", !.status = 200]
                                 ELSE Raise(@, 500)]
    /\ UNCHANGED <<store, db, ver, issued, ack, wl, req, heap, call, seed, sel, tab, recop, nsc>>

\* finally: db.close()
AdClose(p) ==
    /\ ad[p].pc = "finally"
    /\ ad' = [ad EXCEPT ![p] = [close(@) EXCEPT !.pc = "done"]]
    /\ UNCHANGED <<store, db, ver, issued, ack, wl, req, heap, call, seed, sel, tab, recop, nsc>>

\* the request has completed
AdFinish(p) ==
    /\ ad[p].pc = "done"
    /\ ad' = [ad EXCEPT ![p] = NoAd]
    /\ UNCHANGED <<store, db, ver, issued, ack, wl, req, heap, call, seed, sel, tab, recop, nsc>>

InitConn ==
    /\ store = <<>>
    /\ db = [t \in Tables |-> [i \in RowIds |-> NoRow]]
    /\ ver = [t \in Tables |-> 0]
    /\ issued = {}
    /\ ack = [s \in Tokens |-> [t \in Tables |-> 0]]
    /\ wl = [ops |-> {}, names |-> {}, tokens |-> {}, procs |-> {}, faulty |-> FALSE,
             sessions |-> 0]
    /\ req = [p \in Procs |-> Idle]
    /\ heap = <<>>
    /\ call = NoCall
    /\ seed = [p \in Procs |-> 1]
    /\ sel = NoSel
    /\ tab = NoTab
    /\ recop = NoRec
    /\ ad = [p \in Procs |-> NoAd]
    /\ nsc = NoNs

NextConn ==
    \/ \E p \in Procs : ConnectBegin(p)
    \/ \E p \in Procs : UseBegin(p)
    \/ \E p \in Procs : AdConnect(p)
    \/ \E p \in Procs : AdStore(p)
    \/ \E p \in Procs : AdBody(p)
    \/ \E p \in Procs : AdClose(p)
    \/ \E p \in Procs : AdFinish(p)

\* the requests that construct an adapter, step by step
SpecConn == InitConn /\ [][NextConn]_vars

\* ------------------------------------------- the cache functions, call by call
\* The functions of redis_caches.py called one at a time on a store that
\* holds entries of two sessions and of several tables.  The table name is
\* whatever the caller passed: the clear-table route hands its path parameter
\* to invalidate_table_cache without looking it up in the backend.
NsMaxKeys == 2                       \* entries in the store at a time
NsMaxFault == 3                      \* commands of one call, the last that may fault

NsTables == {"t1", "t2", "*"}        \* table names passed to the cache functions
NsKinds == CachedKinds
NsCells == {"a", DateCell}           \* the cell of column c of the row cached
NsFaultAt == 0..NsMaxFault           \* the command of a call that faults, 0 for none

\* the value of a table holding one row that the route of the kind caches
NsValue(kind, t, cell) ==
    CASE kind = "count" -> IntV(1)
      [] kind = "columns" -> ListV(TableColumns)
      [] kind = "all_tables" -> ListV(<<[database |-> "db", table |-> "t1"]>>)
      [] kind = "preview" -> RowsV(<<[id |-> 1, c |-> cell]>>)
      [] OTHER -> DictV([records |-> <<[id |-> 1, c |-> cell]>>, total_count |-> 1,
                         total_pages |-> 1, table |-> t, page |-> PageNo,
                         page_size |-> PageSize])

\* for pattern in patterns: keys = KEYS pattern; if keys: total += DEL keys.
\* n commands have been sent; the f-th command raises, the except clause of
\* the function logs it and returns 0.
RECURSIVE SweepAll(_, _, _, _, _, _)
SweepAll(st, pats, i, total, n, f) ==
    IF i > Len(pats) THEN [st |-> st, ret |-> total, faulted |-> FALSE]
    ELSE IF n + 1 = f THEN [st |-> st, ret |-> 0, faulted |-> TRUE]
    ELSE LET found == Keys(st, pats[i])
         IN IF found = {} THEN SweepAll(st, pats, i + 1, total, n + 1, f)
            ELSE IF n + 2 = f THEN [st |-> st, ret |-> 0, faulted |-> TRUE]
            ELSE SweepAll(Drop(st, found), pats, i + 1, total + Cardinality(found),
                          n + 2, f)

invalidate_table_cache(st, s, t, f) == SweepAll(st, TablePatterns(s, t), 1, 0, 0, f)

clear_all_session_cache(st, s, f) == SweepAll(st, SessionPatterns(s), 1, 0, 0, f)

NsCalled(fn, s, t, ret, ok, faulted) ==
    [fn |-> fn, s |-> s, t |-> t, before |-> store, ret |-> ret, ok |-> ok,
     faulted |-> faulted, kind |-> "", hit |-> None, miss |-> None]

\* the miss branch of a cached read route: cache_table_columns / _count /
\* _preview / _records, set_cache of the table list; the value cached is the
\* value the response is made of
NsCache ==
    \E s \in Tokens, kind \in NsKinds, t \in NsTables, cell \in NsCells :
        LET k == DerivedKey(kind, s, t, PageNo, PageSize)
            w == set_cache(store, k, NsValue(kind, t, cell), Expire(kind), 0, FALSE)
        IN /\ Cardinality(DOMAIN w.st) <= NsMaxKeys
           /\ store' = w.st
           /\ nsc' = [NsCalled("cache", s, t, 0, w.ok, FALSE) EXCEPT
                         !.kind = kind, !.miss = Body(kind, t, NsValue(kind, t, cell))]
           /\ UNCHANGED <<db, ver, issued, ack, wl, req, heap, call, seed, sel, tab, recop, ad>>

\* the hit branch of a cached read route: get_cached_*, and the response made
\* of what it returned; miss is (history) the response of the request that
\* wrote the entry
NsGet ==
    \E s \in Tokens, kind \in NsKinds, t \in NsTables :
        LET k == DerivedKey(kind, s, t, PageNo, PageSize)
            g == get_cache(store, k, FALSE, FALSE)
        IN /\ k \in DOMAIN store
           /\ store' = g.st
           /\ nsc' = [NsCalled("get", s, t, 0, IsHit(kind, g.val), FALSE) EXCEPT
                         !.kind = kind,
                         !.hit = IF IsHit(kind, g.val) THEN Body(kind, t, g.val) ELSE None,
                         !.miss = Body(kind, t, store[k].py)]
           /\ UNCHANGED <<db, ver, issued, ack, wl, req, heap, call, seed, sel, tab, recop, ad>>

\* store_connection_info
NsStore ==
    \E s \in Tokens :
        LET w == set_cache(store, ConnKey(s), Descriptor, DEFAULT_EXPIRE, 0, FALSE)
        IN /\ Cardinality(DOMAIN w.st) <= NsMaxKeys
           /\ store' = w.st
           /\ nsc' = NsCalled("store_connection_info", s, "", 0, w.ok, FALSE)
           /\ UNCHANGED <<db, ver, issued, ack, wl, req, heap, call, seed, sel, tab, recop, ad>>

NsInvalidate ==
    \E s \in Tokens, t \in NsTables, f \in NsFaultAt :
        LET w == invalidate_table_cache(store, s, t, f)
        IN /\ store' = w.st
           /\ nsc' = NsCalled("invalidate_table_cache", s, t, w.ret, ~w.faulted, w.faulted)
           /\ UNCHANGED <<db, ver, issued, ack, wl, req, heap, call, seed, sel, tab, recop, ad>>

NsClearAll ==
    \E s \in Tokens, f \in NsFaultAt :
        LET w == clear_all_session_cache(store, s, f)
        IN /\ store' = w.st
           /\ nsc' = NsCalled("clear_all_session_cache", s, "", w.ret, ~w.faulted, w.faulted)
           /\ UNCHANGED <<db, ver, issued, ack, wl, req, heap, call, seed, sel, tab, recop, ad>>

NsDeleteConn ==
    \E s \in Tokens, fault \in BOOLEAN :
        LET d == delete_connection_info(store, s, fault)
        IN /\ store' = d.st
           /\ nsc' = NsCalled("delete_connection_info", s, "", 0, d.ok, fault)
           /\ UNCHANGED <<db, ver, issued, ack, wl, req, heap, call, seed, sel, tab, recop, ad>>

\* cache_table_data: the page of a table under a key without a session,
\* set_cache with its default expire
TableDataKey(t, page, size) == <<"table", t, "page", page, "size", size>>

cache_table_data(st, t, page, size, data) ==
    set_cache(st, TableDataKey(t, page, size), data, DEFAULT_EXPIRE, 0, FALSE)

NsCacheData ==
    \E t \in NsTables, cell \in NsCells :
        LET w == cache_table_data(store, t, PageNo, PageSize, NsValue("records", t, cell))
        IN /\ Cardinality(DOMAIN w.st) <= NsMaxKeys
           /\ store' = w.st
           /\ nsc' = NsCalled("cache_table_data", "", t, 0, w.ok, FALSE)
           /\ UNCHANGED <<db, ver, issued, ack, wl, req, heap, call, seed, sel, tab, recop, ad>>

\* cache_single_record: one row-map under the key of its record id
SingleRecordKey(s, t, id) == <<s, "table", t, "record", id>>

cache_single_record(st, s, t, id, data) ==
    set_cache(st, SingleRecordKey(s, t, id), data, RECORDS_EXPIRE, 0, FALSE)

NsCacheRecord ==
    \E s \in Tokens, t \in NsTables :
        LET w == cache_single_record(store, s, t, "1", DictV([id |-> 1, c |-> "a"]))
        IN /\ Cardinality(DOMAIN w.st) <= NsMaxKeys
           /\ store' = w.st
           /\ nsc' = NsCalled("cache_single_record", s, t, 0, w.ok, FALSE)
           /\ UNCHANGED <<db, ver, issued, ack, wl, req, heap, call, seed, sel, tab, recop, ad>>

InitNs ==
    /\ store = <<>>
    /\ db = [t \in Tables |-> [i \in RowIds |-> NoRow]]
    /\ ver = [t \in Tables |-> 0]
    /\ issued = {}
    /\ ack = [s \in Tokens |-> [t \in Tables |-> 0]]
    /\ wl = [ops |-> {}, names |-> {}, tokens |-> {}, procs |-> {}, faulty |-> FALSE,
             sessions |-> 0]
    /\ req = [p \in Procs |-> Idle]
    /\ heap = <<>>
    /\ call = NoCall
    /\ seed = [p \in Procs |-> 1]
    /\ sel = NoSel
    /\ tab = NoTab
    /\ recop = NoRec
    /\ ad = [p \in Procs |-> NoAd]
    /\ nsc = NoNs

NextNs ==
    \/ NsCache
    \/ NsGet
    \/ NsStore
    \/ NsInvalidate
    \/ NsClearAll
    \/ NsDeleteConn
    \/ NsCacheData
    \/ NsCacheRecord

\* the cache functions called one after another
SpecNs == InitNs /\ [][NextNs]_vars

\* =================================================================== claims
Done(p) == req[p].pc = "done"

\* the adapter of the request was opened and its operation called
Called(p) == req[p].resolved /\ "connect" \notin req[p].flt

\* C1: a write that reports success has, by then, removed every entry of the
\* (session, table) namespace that existed when its backend write committed.
C1_AllInvalidated ==
    \A p \in Procs :
        (Done(p) /\ req[p].op \in Writes /\ req[p].committed /\ req[p].resp.success)
            => req[p].pre = {}

\* C2: a cached read of table T in session S that starts after a write on
\* (S, T) was acknowledged returns data at least as new as that write.
C2_NoStaleRead ==
    \A p \in Procs :
        (Done(p) /\ req[p].op \in CachedKinds \ {"all_tables"} /\ req[p].t \in Tables
                 /\ req[p].resp.status = 200)
            => req[p].src >= req[p].need

\* C3: a write whose invalidation hit a fault of the cache store, after the
\* backend write succeeded, reports a fault and not success.
C3_InvalidationFaultReported ==
    \A p \in Procs :
        (Done(p) /\ req[p].op \in Writes /\ req[p].committed /\ "sweep" \in req[p].flt)
            => (~req[p].resp.success /\ req[p].resp.status >= 500)

\* a row-map without the row number that SELECT * FROM PagedData adds
Bare(rec) == [f \in (DOMAIN rec) \ {"RowNum"} |-> rec[f]]

RowSet(records) == {Bare(records[i]) : i \in DOMAIN records}

\* C4: on a table no one writes, for page * pageSize <= totalCount, every
\* pagination statement of an adapter returns the same set of rows (a row
\* number column that one statement adds is set aside).
C4_VariantsAgree ==
    (call # NoCall /\ ~call.failed /\ call.page * call.size <= Len(heap))
        => \A v \in Variants(call.adapter) :
              RowSet(PageBy(call.adapter, v, heap, call.page, call.size,
                            call.columns).records)
                  = RowSet(call.out.records)

\* the operations that take a table name
TableOps == (CachedKinds \ {"all_tables"}) \cup UncachedReads \cup Writes

\* the not-found outcome: status 404, no success value
IsObjectNotFound(resp) == resp.status = 404 /\ ~resp.success

\* C5: every table operation called with a table name that does not exist
\* reports ObjectNotFound.
C5_UnknownTableNotFound ==
    \A p \in Procs :
        (Done(p) /\ req[p].op \in TableOps /\ req[p].t \notin Tables /\ Called(p))
            => IsObjectNotFound(req[p].resp)

\* the session outcome: status 401 or 404
IsSessionNotFound(resp) == resp.status \in {401, 404}

\* C6: an operation that fails because its token has no descriptor in the
\* cache store reports SessionNotFound (401 or 404).
C6_SessionNotFound ==
    \A p \in Procs :
        (Done(p) /\ "nosession" \in req[p].flt) => IsSessionNotFound(req[p].resp)

\* C7: in a cached read that did not fail at the descriptor lookup or at the
\* backend connect, a fault of the cache store on the get or the set of the
\* derived entry is not propagated: the get counts as a miss, the adapter is
\* called, and what the adapter returns for the table as it is in the backend
\* is the response.
C7_ReadFaultDegrades ==
    \A p \in Procs :
        (Done(p) /\ req[p].op \in CachedKinds /\ (req[p].hit \/ Called(p))
                 /\ req[p].flt \cap {"get", "set"} # {})
            => /\ ~req[p].hit
               /\ req[p].resp.status = 200
               /\ (req[p].t \in Tables => req[p].src = ver[req[p].t])
                    => req[p].resp.data =
                         Body(req[p].op, req[p].t,
                              AdapterRead(req[p].op, db, req[p].t, PageNo, PageSize))

C7_Witness ==
    \E p \in Procs :
        /\ Done(p) /\ req[p].op = "count" /\ Called(p) /\ req[p].t \in Tables
        /\ {"get", "set"} \subseteq req[p].flt
        /\ req[p].resp.status = 200
        /\ req[p].resp.data.v.count = 1

\* the key of the get_cache call request r is about to make
GetKey(r) ==
    IF r.pc = "get" THEN DerivedKey(r.op, r.s, r.t, PageNo, PageSize) ELSE ConnKey(r.s)

Undeserializable(k) == k \in DOMAIN store /\ store[k].txt # "json"

\* request p has just made its get_cache call
Got(p) == req[p].pc \in {"get", "resolve"} /\ req'[p].pc # req[p].pc

C9_IdentifiersConfirmed ==
    \A p \in Procs : Unconfirmed(req[p].trace) = {}

Existing(a, columns) == Range(columns) \cap Range(ColumnsOf(a))

\* C10: get_paginated_records with a column list does not fail for a column
\* that does not exist; every row-map has exactly the requested columns that
\* exist, or every column of the table when none of them exists (a row
\* number column that a statement adds is set aside).
C10_ProjectionExact ==
    (call # NoCall /\ ~call.failed /\ call.columns # <<>>)
        => /\ call.out.total_count = Len(heap)
           /\ Len(call.out.records) =
                Len(LimitOffset(heap, call.size, (call.page - 1) * call.size))
           /\ \A i \in DOMAIN call.out.records :
                DOMAIN Bare(call.out.records[i]) =
                    IF Existing(call.adapter, call.columns) = {}
                    THEN Range(ColumnsOf(call.adapter))
                    ELSE Existing(call.adapter, call.columns)

\* C11: every page result of get_paginated_records, of any adapter and for
\* any page >= 1 and page size >= 1, the empty page of the failure paths
\* included, has total_pages = ceil(total_count / page_size): the least
\* number of pages of that size that hold total_count rows, 0 for 0 rows.
C11_TotalPagesIsCeil ==
    call # NoCall
        => /\ call.out.total_pages * call.size >= call.out.total_count
           /\ (call.out.total_pages - 1) * call.size < call.out.total_count
           /\ call.out.total_count = 0 => call.out.total_pages = 0

C11_Witness ==
    /\ call # NoCall /\ ~call.failed
    /\ call.size = 2 /\ call.out.total_count = 3 /\ call.out.total_pages = 2

\* a stored page is the page of the request: same page and the same set of
\* columns, in whatever order
SamePage(page, c) == page.page = c.page /\ Range(page.columns) = Range(c.columns)

\* C12: for two column lists that are permutations of one duplicate-free
\* set, with equal session, table, page and page size, the store and the get
\* function derive the same key: a page stored under one ordering is what
\* the get for the other ordering returns.
C12_PermutationsShareKey ==
    sel.op = "get"
        => \A k \in DOMAIN store :
              SamePage(store[k].v.v, sel) => (k = sel.key /\ sel.val = store[k].v)

\* C13: after an insert into a table with a generated key returns an id, the
\* id is not empty and getById of it, with no write in between, returns a row
\* whose values in the columns given equal the values inserted.
C13_InsertedRowReadBack ==
    (recop.op = "insert" /\ tab.pk /\ Truthy(recop.ret))
        => /\ IdOf(recop.ret) # ""
           /\ recop.got.ty = "dict"
           /\ recop.got.v.c = recop.data.c
           /\ recop.data.id # NoId => recop.got.v.id = recop.data.id

\* C14: whenever delete returns true and the route reports deleted_count 1,
\* the table holds exactly one row less than before, with or without a key.
C14_DeleteRemovesOne ==
    (recop.op = "delete" /\ recop.ret = BoolV(TRUE) /\ recop.deleted_count = 1)
        => Len(heap) = recop.count - 1

C16_ClosedOnEveryExit ==
    \A p \in Procs : (ad[p].pc = "done" /\ ad[p].constructed) => ad[p].closes >= 1

C16_Witness ==
    \E p \in Procs :
        /\ ad[p].pc = "done" /\ ad[p].constructed /\ ad[p].status = 500
        /\ ad[p].conn = "live" /\ ad[p].closes = 1

\* C17: connect_to_db stores a descriptor and issues a token only after the
\* adapter's connect returned a live handle; when connect failed the request
\* ends with 400, nothing stored under any token and no token issued.
C17_StoredOnlyAfterConnect ==
    /\ \A p \in Procs :
          ad[p].route = "connect"
          => /\ (ad[p].stored \/ ad[p].token # "") => ad[p].conn = "live"
             /\ (ad[p].pc = "done" /\ ad[p].conn = "none")
                   => (~ad[p].stored /\ ad[p].token = "" /\ ad[p].status = 400)
    /\ \A s \in Tokens : ConnKey(s) \in DOMAIN store => s \in issued

C17_Witness ==
    \E p \in Procs :
        /\ ad[p].route = "connect" /\ ad[p].pc = "done" /\ ad[p].conn = "live"
        /\ ad[p].token # "" /\ ConnKey(ad[p].token) \in DOMAIN store

\* C18: close() on an adapter whose connect failed or was never called, and
\* close() again after a close, raises nothing and leaves no handle.
C18_CloseIsIdempotent ==
    \A p \in Procs :
        (ad[p].constructed /\ (ad[p].conn = "none" \/ ad[p].closes >= 1))
        => /\ close(ad[p]).handle = "none" /\ ~close(ad[p]).raised
           /\ close(close(ad[p])).handle = "none" /\ ~close(close(ad[p])).raised

C18_Witness ==
    \E p \in Procs :
        /\ ad[p].kind = "mongodb" /\ ad[p].conn = "none" /\ ad[p].pc = "done"
        /\ ad[p].closes = 1 /\ ad[p].handle = "none"

\* C20: a cached read of a table that does not exist, whose backend query
\* therefore fails, leaves no entry in the cache under its key.
C20_FailedReadNotCached ==
    \A p \in Procs :
        (Done(p) /\ Called(p) /\ ~req[p].hit
            /\ req[p].op \in CachedKinds \ {"all_tables"} /\ req[p].t \notin Tables)
        => DerivedKey(req[p].op, req[p].s, req[p].t, PageNo, PageSize) \notin DOMAIN store

\* C19: a write request that has returned after its change was committed at
\* the backend has run the invalidation of its (session, table) namespace.
C19_CommittedWriteInvalidates ==
    \A p \in Procs :
        (Done(p) /\ req[p].op \in Writes /\ req[p].committed) => req[p].pats # <<>>

\* C21: a read whose token has no connection descriptor in the store when the
\* route consults the cache does not answer with table data.
C21_ReadResolvesFirst ==
    [][\A p \in Procs :
          (req[p].pc = "get" /\ ConnKey(req[p].s) \notin DOMAIN store
              /\ req'[p].pc = "done")
          => req'[p].resp.status # 200]_vars

\* the keys of the namespace of (s, t): those with the prefix "s:table:t:"
InNamespace(k, s, t) == Len(k) >= 4 /\ k[1] = s /\ k[2] = "table" /\ k[3] = t

\* C22: invalidate_table_cache(S, T) leaves every key outside the namespace
\* of (S, T) in the store with its entry unchanged.
C22_InvalidateFrame ==
    nsc.fn = "invalidate_table_cache"
        => \A k \in DOMAIN nsc.before :
              ~InNamespace(k, nsc.s, nsc.t) => (k \in DOMAIN store /\ store[k] = nsc.before[k])

\* the session a key belongs to
KeySession(k) == IF k[1] = "connection" THEN k[2] ELSE k[1]

\* the request of worker p takes a step
Steps(p) == req'[p].pc # req[p].pc \/ req'[p].pi # req[p].pi

\* C23: no step of a write request of session S1 removes or changes an entry
\* of another session S2, the entries of S2 for the same table included; a
\* later read of S2 may then be served the entry computed before the write.
C23_OtherSessionsKept ==
    [][\A p \in Procs :
          (req[p].op \in Writes /\ Steps(p))
          => \A k \in DOMAIN store :
                KeySession(k) # req[p].s => (k \in DOMAIN store' /\ store'[k] = store[k])]_vars

\* session s2 is served, from its own entry, a page or count of t1 computed
\* before a write of session s1 on t1 that was acknowledged
C23_Witness ==
    \E p \in Procs :
        /\ Done(p) /\ req[p].hit /\ req[p].op \in {"records", "count"}
        /\ req[p].s = "s2" /\ req[p].t = "t1"
        /\ req[p].src < ack["s1"]["t1"]

\* C24: the response a cached read route makes of a cache hit equals the
\* response of the request that missed and wrote the entry.
C24_HitEqualsMiss ==
    (nsc.fn = "get" /\ nsc.ok) => nsc.hit = nsc.miss

\* the rows of page p as adapter a returns them with statement v, all columns
PageRows(a, v, p, size) == PageBy(a, v, heap, p, size, <<>>).records

\* the pages 1..ceil(N / size) of the table are pairwise disjoint, hold at
\* most size rows each and together hold every row; the two pages after the
\* last are empty
Partition(a, v, size) ==
    LET last == Ceil(Len(heap), size)
    IN /\ \A p \in 1..last : Len(PageRows(a, v, p, size)) <= size
       /\ \A p, q \in 1..last :
             p # q => RowSet(PageRows(a, v, p, size)) \cap RowSet(PageRows(a, v, q, size)) = {}
       /\ UNION {RowSet(PageRows(a, v, p, size)) : p \in 1..last}
             = {Stored(a, heap[i]) : i \in DOMAIN heap}
       /\ \A p \in (last + 1)..(last + 2) : PageRows(a, v, p, size) = <<>>

\* C25: for a table that is not written and every page size, the pages an
\* adapter's get_paginated_records returns partition the table.
C25_PagesPartition ==
    \A a \in Adapters, size \in 1..MaxPageSize : \A v \in Variants(a) : Partition(a, v, size)

\* two cells hold the same value (cells of different types are different)
SameValue(x, y) == ToString(x) = ToString(y)

\* the row of the table that record i of the returned page was made of
PageRow(i) == heap[(call.page - 1) * call.size + i]

\* C26: in every row-map the Oracle adapter's get_paginated_records returns
\* for a column projection, each column name is mapped to the value the row
\* has in that same column, whatever the order of the requested columns.
C26_NamesOwnValues ==
    (call # NoCall /\ call.adapter = "oracle" /\ ~call.failed /\ call.columns # <<>>)
        => \A i \in DOMAIN call.out.records :
              \A c \in DOMAIN call.out.records[i] :
                 SameValue(call.out.records[i][c], Stored("oracle", PageRow(i))[c])

\* C27: when clear_all_session_cache(S) has returned, the store holds neither
\* the descriptor connection:S nor any derived key S:*, so the token S
\* resolves no more and no entry of S is left to answer a request.
C27_ClearAllRemovesSession ==
    nsc.fn = "clear_all_session_cache"
        => \A k \in DOMAIN store : KeySession(k) # nsc.s

\* delete_connection_info left every key but connection:S as it was and added
\* none
DeleteConnFrame ==
    /\ DOMAIN store \subseteq DOMAIN nsc.before
    /\ \A k \in DOMAIN nsc.before :
          k # ConnKey(nsc.s) => (k \in DOMAIN store /\ store[k] = nsc.before[k])

\* C28 as stated: delete_connection_info(S) removes connection:S and no other
\* key, and returns true exactly when the descriptor existed before the call.
C28_DeleteConnOnly ==
    nsc.fn = "delete_connection_info"
        => /\ DeleteConnFrame
           /\ ConnKey(nsc.s) \notin DOMAIN store
           /\ nsc.ok <=> (ConnKey(nsc.s) \in DOMAIN nsc.before)

\* C28: delete_connection_info(S) changes no key but connection:S; when the
\* DEL command does not fault, connection:S is absent afterwards and the
\* result is true exactly when the descriptor existed before the call; when
\* the command faults, the store is unchanged and the result is false.
C28_DeleteConnOnlyUnlessFault ==
    nsc.fn = "delete_connection_info"
        => /\ DeleteConnFrame
           /\ ~nsc.faulted => /\ ConnKey(nsc.s) \notin DOMAIN store
                              /\ nsc.ok <=> (ConnKey(nsc.s) \in DOMAIN nsc.before)
           /\ nsc.faulted => (store = nsc.before /\ ~nsc.ok)

\* the descriptor of a session was deleted and a derived entry of the same
\* session is still stored
C28_Witness ==
    /\ nsc.fn = "delete_connection_info"
    /\ nsc.ok
    /\ ConnKey(nsc.s) \in DOMAIN nsc.before
    /\ \E k \in DOMAIN store : k[1] = nsc.s

\* the invalidate_table_cache call of write request p has returned
Invalidated(p) ==
    /\ Done(p) /\ req[p].op \in Writes /\ req[p].committed
    /\ (req[p].swept \/ "sweep" \in req[p].flt)

\* C29: with other requests writing entries at the same time, when
\* invalidate_table_cache(S, T) returns, no key of the namespace of (S, T)
\* that existed when it started has stayed in the store all along (pre,
\* history, is empty), and the value returned (total) is the number of keys
\* the call removed (removed, history).
C29_SweepRemovesAndCounts ==
    \A p \in Procs :
        Invalidated(p) => (req[p].pre = {} /\ req[p].total = req[p].removed)

\* the keys whose entries hold rows of a table or their number: record pages,
\* selected-column pages, single records, counts, previews, and the pages of
\* cache_table_data
HoldsRecordData(k) ==
    IF k[1] = "table" THEN TRUE
    ELSE /\ Len(k) >= 4
         /\ k[2] = "table"
         /\ k[4] \in {"records", "selected", "record", "count", "preview"}

\* C30: every entry of the store that holds record data was stored with a
\* time to live of at most 1800 seconds.
C30_RecordDataTtl ==
    \A k \in DOMAIN store : HoldsRecordData(k) => store[k].ttl <= RECORDS_EXPIRE
====
